---- MODULE Spec2Model ----
(***************************************************************************)
(* The notebook "Saving and Loading Models" as a state machine.  The state *)
(* is the working directory (the CSV inputs and the three artifacts), the  *)
(* kernel's namespace shared by the six code cells, the file objects that  *)
(* are still open, and what the last cell run produced.  Each code cell is *)
(* one action; the library calls a cell makes (pandas, scikit-learn,       *)
(* pickle, skl2onnx, onnxruntime) are operators computing what the call    *)
(* does on the model's data.                                               *)
(*                                                                         *)
(* Optional values are sequences of length <= 1: <<>> is "no value" (a     *)
(* missing CSV cell, an unbound name, an absent file), <<v>> is v.         *)
(* Probabilities are integers in percent.                                  *)
(***************************************************************************)
EXTENDS Integers, Sequences, FiniteSets, TLC

VARIABLES
    files,        \* path -> <<>> (absent) or <<content>>
    handles,      \* file objects not yet closed: [file, mode, buf]
    ns,           \* the kernel namespace: name -> <<>> (unbound) or <<value>>
    out,          \* [cell, status, value]: the last cell run and its output
    dumped,       \* artifact path -> the objects handed to a serializer
    refcounting,  \* the interpreter frees an object when its last reference goes
    checksNames   \* the installed scikit-learn validates feature names

vars == <<files, handles, ns, out, dumped, refcounting, checksNames>>

(***************************************************************************)
(* Small helpers.                                                          *)
(***************************************************************************)
None == <<>>
Some(v) == <<v>>
IsNone(o) == Len(o) = 0
Get(o) == o[1]

Range(s) == {s[i] : i \in 1..Len(s)}

RECURSIVE SumOver(_, _)
SumOver(f, S) ==
    IF S = {} THEN 0
    ELSE LET e == CHOOSE e \in S : TRUE IN f[e] + SumOver(f, S \ {e})

Clamp(v, lo, hi) == IF v < lo THEN lo ELSE IF v > hi THEN hi ELSE v

\* The elements of s that satisfy keep, in order.
RECURSIVE Filter(_, _)
Filter(s, keep) ==
    IF Len(s) = 0 THEN <<>>
    ELSE (IF keep[1] THEN <<s[1]>> ELSE <<>>)
         \o Filter(Tail(s), Tail(keep))

RECURSIVE Flatten(_)
Flatten(ss) == IF Len(ss) = 0 THEN <<>> ELSE ss[1] \o Flatten(Tail(ss))

\* Every sequence over S of length at most n.
SeqsUpTo(S, n) == UNION {[1..k -> S] : k \in 0..n}

(***************************************************************************)
(* Paths the cells name.                                                   *)
(***************************************************************************)
TitanicCsv == "Data/titanic.csv"
ReviewsCsv == "Data/reviews.csv"
TitanicPkl == "titanic.pkl"
SentimentPkl == "sentiment.pkl"
SentimentOnnx == "sentiment.onnx"
Paths == {TitanicCsv, ReviewsCsv, TitanicPkl, SentimentPkl, SentimentOnnx}

(***************************************************************************)
(* pandas.  A DataFrame is its columns (in order), their dtypes, its index *)
(* labels and its rows (column -> cell).                                   *)
(***************************************************************************)
\* The string values of the model in str's sort order.
Alphabetical == <<"female", "male">>
StrRank(s) == CHOOSE i \in 1..Len(Alphabetical) : Alphabetical[i] = s

\* sorted(S) for integers.
SortInts(S) ==
    [i \in 1..Cardinality(S) |->
        CHOOSE v \in S : Cardinality({w \in S : w < v}) = i - 1]
\* sorted(S) for strings.
SortStrs(S) ==
    [i \in 1..Cardinality(S) |->
        CHOOSE v \in S : Cardinality({w \in S : StrRank(w) < StrRank(v)}) = i - 1]

\* The dtype read_csv infers: text is object, integers are int64, and a
\* numeric column with a blank cell is float64 (NaN has no integer form).
InferDtype(kind, cells) ==
    IF kind = "str" THEN "object"
    ELSE IF \E i \in 1..Len(cells) : IsNone(cells[i]) THEN "float64"
    ELSE "int64"

\* pd.read_csv on the content of a file: [header, kinds, rows].
ReadCsv(csv) ==
    [columns |-> csv.header,
     dtypes  |-> [c \in Range(csv.header) |->
                     InferDtype(csv.kinds[c],
                                [i \in 1..Len(csv.rows) |-> csv.rows[i][c]])],
     index   |-> [i \in 1..Len(csv.rows) |-> i - 1],
     rows    |-> csv.rows]

\* df[[c1, ..., cn]]
SelectColumns(df, cols) ==
    [columns |-> cols,
     dtypes  |-> [c \in Range(cols) |-> df.dtypes[c]],
     index   |-> df.index,
     rows    |-> [i \in 1..Len(df.rows) |-> [c \in Range(cols) |-> df.rows[i][c]]]]

\* str(level) as get_dummies writes it into a column name.
FormatLevel(v, dtype) ==
    IF dtype = "object" THEN v
    ELSE IF dtype = "float64" THEN ToString(v) \o ".0"
    ELSE ToString(v)

\* The distinct values of a column that are not missing, in the order the
\* rows first show them.
LevelsAsRead(df, c) ==
    LET first == [i \in 1..Len(df.rows) |->
                     /\ ~IsNone(df.rows[i][c])
                     /\ \A j \in 1..(i - 1) : df.rows[j][c] # df.rows[i][c]]
        cells == Filter([i \in 1..Len(df.rows) |-> df.rows[i][c]], first)
    IN  [k \in 1..Len(cells) |-> Get(cells[k])]

\* The levels of a column: its distinct values that are not missing, sorted.
Levels(df, c) ==
    LET present == {Get(df.rows[i][c]) :
                       i \in {j \in 1..Len(df.rows) : ~IsNone(df.rows[j][c])}}
    IN  IF df.dtypes[c] = "object" THEN SortStrs(present) ELSE SortInts(present)

DummyNames(df, c) ==
    LET lv == Levels(df, c)
    IN  [k \in 1..Len(lv) |-> c \o "_" \o FormatLevel(lv[k], df.dtypes[c])]

\* pd.get_dummies(df, columns=enc): the columns left alone come first, then
\* each encoded column's indicators.  dummy_na is off: a missing cell sets no
\* indicator, and the row keeps no trace of it.
GetDummies(df, enc) ==
    LET kept   == Filter(df.columns,
                         [i \in 1..Len(df.columns) |-> df.columns[i] \notin Range(enc)])
        names  == [k \in 1..Len(enc) |-> DummyNames(df, enc[k])]
        cols   == kept \o Flatten(names)
        src(n) == CHOOSE k \in 1..Len(enc) : n \in Range(names[k])
        lvl(n) == LET k == src(n)
                      j == CHOOSE j \in 1..Len(names[k]) : names[k][j] = n
                  IN  Levels(df, enc[k])[j]
        cell(r, n) ==
            IF n \in Range(kept) THEN r[n]
            ELSE LET v == r[enc[src(n)]]
                 IN  Some(IF ~IsNone(v) /\ Get(v) = lvl(n) THEN 1 ELSE 0)
    IN  [columns |-> cols,
         dtypes  |-> [n \in Range(cols) |->
                         IF n \in Range(kept) THEN df.dtypes[n] ELSE "bool"],
         index   |-> df.index,
         rows    |-> [i \in 1..Len(df.rows) |->
                         [n \in Range(cols) |-> cell(df.rows[i], n)]]]

\* df.dropna(): the rows with no missing cell, under their old index labels.
DropNa(df) ==
    LET keep == [i \in 1..Len(df.rows) |->
                    \A c \in Range(df.columns) : ~IsNone(df.rows[i][c])]
    IN  [df EXCEPT !.index = Filter(df.index, keep),
                   !.rows  = Filter(df.rows, keep)]

\* df.drop(c, axis=1)
DropColumn(df, c) ==
    SelectColumns(df, Filter(df.columns,
                             [i \in 1..Len(df.columns) |-> df.columns[i] # c]))

\* df[c]: the column as a Series.
Column(df, c) ==
    [name |-> c, dtype |-> df.dtypes[c], index |-> df.index,
     values |-> [i \in 1..Len(df.rows) |-> df.rows[i][c]]]

(***************************************************************************)
(* Python objects.  An object is its class and its __dict__; an estimator  *)
(* is fitted when the attributes fit sets are in its __dict__.             *)
(***************************************************************************)
Object(class, dict) == [class |-> class, dict |-> dict]
Has(obj, attr) == attr \in DOMAIN obj.dict

\* __dict__ keys in the order __init__ and fit insert them.
AttrOrder ==
    <<"max_iter", "random_state", "ngram_range", "stop_words", "min_df",
      "vocabulary_", "classes_", "coef_", "intercept_", "n_features_in_",
      "feature_names_in_", "steps">>
Keys(dict) ==
    Filter(AttrOrder, [i \in 1..Len(AttrOrder) |-> AttrOrder[i] \in DOMAIN dict])

(***************************************************************************)
(* scikit-learn's LogisticRegression.  The optimiser is outside the        *)
(* notebook; fit is modelled by a deterministic linear learner with the    *)
(* same interface: classes_ is the sorted distinct labels, the decision    *)
(* function scores classes_[1] (Python index), rows are read by position,  *)
(* and predict_proba's columns follow classes_.                            *)
(***************************************************************************)
DefaultMaxIter == 100

\* LogisticRegression(max_iter=..., random_state=...)
LogisticRegression(max_iter, random_state) ==
    Object("LogisticRegression",
           [max_iter |-> max_iter, random_state |-> random_state])

\* The learned parameters for a matrix X (rows of integers) and labels y.
FitLinear(X, y) ==
    LET classes == SortInts(Range(y))
        sign    == [i \in 1..Len(y) |-> IF y[i] = classes[2] THEN 1 ELSE -1]
        n       == Len(X[1])
    IN  [classes_       |-> classes,
         coef_          |-> [j \in 1..n |->
                                SumOver([i \in 1..Len(X) |-> sign[i] * X[i][j]],
                                        1..Len(X))],
         intercept_     |-> SumOver(sign, 1..Len(y)),
         n_features_in_ |-> n]

\* estimator.fit(X, y) on a matrix: [ok, err, obj].
FitMatrix(est, X, y) ==
    IF Len(X) = 0
    THEN [ok |-> FALSE, err |-> "ValueError: 0 samples", obj |-> est]
    ELSE IF Cardinality(Range(y)) < 2
    THEN [ok |-> FALSE, err |-> "ValueError: one class", obj |-> est]
    ELSE [ok |-> TRUE, err |-> "",
          obj |-> Object(est.class, FitLinear(X, y) @@ est.dict)]

\* A DataFrame's values as a matrix, columns by position.
Matrix(df) ==
    [i \in 1..Len(df.rows) |->
        [j \in 1..Len(df.columns) |-> Get(df.rows[i][df.columns[j]])]]

\* model.fit(x, y) with x a DataFrame and y a Series.  A scikit-learn that
\* validates feature names records the frame's column names.
FitFrame(est, x, y) ==
    LET r == FitMatrix(est, Matrix(x), [i \in 1..Len(y.values) |-> Get(y.values[i])])
    IN  IF r.ok /\ checksNames
        THEN [r EXCEPT !.obj = Object(r.obj.class,
                                      [feature_names_in_ |-> x.columns] @@ r.obj.dict)]
        ELSE r

\* The logistic function, in percent.
Sigmoid(z) == Clamp(50 + z, 1, 99)

\* predict_proba on one row of numbers: <<P(classes_[0]), P(classes_[1])>>.
ProbaRow(est, row) ==
    LET z == est.dict.intercept_
             + SumOver([j \in 1..Len(row) |-> est.dict.coef_[j] * row[j]],
                       1..Len(row))
    IN  <<100 - Sigmoid(z), Sigmoid(z)>>

\* model.predict_proba(X) on a matrix: [ok, err, proba].
PredictProbaMatrix(est, X) ==
    IF ~Has(est, "coef_")
    THEN [ok |-> FALSE, err |-> "NotFittedError", proba |-> <<>>]
    ELSE IF \E i \in 1..Len(X) : Len(X[i]) # est.dict.n_features_in_
    THEN [ok |-> FALSE, err |-> "ValueError: number of features", proba |-> <<>>]
    ELSE [ok |-> TRUE, err |-> "",
          proba |-> [i \in 1..Len(X) |-> ProbaRow(est, X[i])]]

\* model.predict_proba(X) with X a DataFrame: the names are compared only by
\* a scikit-learn that validates them; the values are read by position.
PredictProbaFrame(est, X) ==
    IF Has(est, "feature_names_in_") /\ checksNames
       /\ est.dict.feature_names_in_ # X.columns
    THEN [ok |-> FALSE, err |-> "ValueError: feature names", proba |-> <<>>]
    ELSE PredictProbaMatrix(est, Matrix(X))

(***************************************************************************)
(* pickle.  dumps writes the opcode stream of the object graph; loads runs *)
(* the stream on the unpickler's stack machine.                            *)
(***************************************************************************)
Op(o, a) == [op |-> o, arg |-> a]

\* The opcodes that rebuild an object from its constructor arguments alone,
\* as pickling a clone of it does.
SaveArguments(obj) ==
    LET all == Keys(obj.dict)
        ks  == Filter(all, [i \in 1..Len(all) |->
                              all[i] \in {"max_iter", "random_state", "ngram_range",
                                          "stop_words", "min_df"}])
    IN  <<Op("GLOBAL", <<obj.class>>), Op("MARK", <<>>)>>
        \o Flatten([i \in 1..Len(ks) |->
                      <<Op("UNICODE", <<ks[i]>>), Op("VALUE", <<obj.dict[ks[i]]>>)>>])
        \o <<Op("DICT", <<>>), Op("BUILD", <<>>)>>

\* The opcodes that rebuild an object: its class, then its __dict__.
SaveObject(obj) ==
    LET ks == Keys(obj.dict)
    IN  <<Op("GLOBAL", <<obj.class>>), Op("MARK", <<>>)>>
        \o Flatten([i \in 1..Len(ks) |->
                      <<Op("UNICODE", <<ks[i]>>), Op("VALUE", <<obj.dict[ks[i]]>>)>>])
        \o <<Op("DICT", <<>>), Op("BUILD", <<>>)>>

\* A Pipeline's __dict__ holds its steps, a list of (name, estimator).
SavePipeline(obj) ==
    LET st == obj.dict.steps
    IN  <<Op("GLOBAL", <<obj.class>>), Op("MARK", <<>>),
          Op("UNICODE", <<"steps">>), Op("MARK", <<>>)>>
        \o Flatten([i \in 1..Len(st) |->
                      <<Op("MARK", <<>>), Op("UNICODE", <<st[i][1]>>)>>
                      \o SaveObject(st[i][2]) \o <<Op("TUPLE", <<>>)>>])
        \o <<Op("LIST", <<>>), Op("DICT", <<>>), Op("BUILD", <<>>)>>

\* pickle.dumps(obj)
Pickle(obj) ==
    (IF obj.class = "Pipeline" THEN SavePipeline(obj) ELSE SaveObject(obj))
    \o <<Op("STOP", <<>>)>>

Mark == [t |-> "mark", v |-> <<>>]
Val(v) == [t |-> "val", v |-> <<v>>]

\* The position of the topmost mark on the stack (0: none).
TopMark(stack) ==
    LET ms == {i \in 1..Len(stack) : stack[i].t = "mark"}
    IN  IF ms = {} THEN 0 ELSE CHOOSE i \in ms : \A j \in ms : j <= i

\* The dict of the alternating keys and values in items.
PairsToDict(items) ==
    LET n == Len(items) \div 2
    IN  [k \in {Get(items[2 * i - 1].v) : i \in 1..n} |->
            LET i == CHOOSE i \in 1..n : Get(items[2 * i - 1].v) = k
            IN  Get(items[2 * i].v)]

\* One opcode on the stack: <<>> when the stream is corrupt there.
Step(o, stack) ==
    LET m     == TopMark(stack)
        items == SubSeq(stack, m + 1, Len(stack))
        below == SubSeq(stack, 1, m - 1)
        n     == Len(stack)
    IN  CASE o.op = "GLOBAL"  -> Some(Append(stack, Val(Object(Get(o.arg), <<>>))))
          [] o.op = "MARK"    -> Some(Append(stack, Mark))
          [] o.op \in {"UNICODE", "VALUE"} -> Some(Append(stack, Val(Get(o.arg))))
          [] o.op \in {"TUPLE", "LIST"} ->
                IF m = 0 THEN None
                ELSE Some(Append(below,
                                 Val([i \in 1..Len(items) |-> Get(items[i].v)])))
          [] o.op = "DICT" ->
                IF m = 0 \/ Len(items) % 2 # 0 THEN None
                ELSE Some(Append(below, Val(PairsToDict(items))))
          [] o.op = "BUILD" ->
                IF n < 2 \/ stack[n].t = "mark" \/ stack[n - 1].t = "mark" THEN None
                ELSE Some(Append(SubSeq(stack, 1, n - 2),
                                 Val(Object(Get(stack[n - 1].v).class,
                                            Get(stack[n].v)))))
          [] OTHER -> None

\* The stack machine from opcode i on: the object at STOP, or <<>> when the
\* stream ends or is corrupt before one (EOFError, UnpicklingError).
RECURSIVE Load(_, _, _)
Load(ops, i, stack) ==
    IF i > Len(ops) THEN None
    ELSE IF ops[i].op = "STOP"
    THEN (IF Len(stack) > 0 /\ stack[Len(stack)].t = "val"
          THEN stack[Len(stack)].v ELSE None)
    ELSE LET s == Step(ops[i], stack)
         IN  IF IsNone(s) THEN None ELSE Load(ops, i + 1, Get(s))

\* pickle.loads(bytes): <<obj>>, or <<>> for an error.
Unpickle(ops) == Load(ops, 1, <<>>)

(***************************************************************************)
(* Files and file objects.  open(path, 'wb') creates or truncates the file *)
(* and returns a buffered writer: what is written stays in the buffer      *)
(* until the object is closed.  A notebook state is the record             *)
(* [files, handles, ns, out, dumped].                                      *)
(***************************************************************************)
Names ==
    {"df", "x", "y", "model", "vectorizer", "pipe", "female", "probability",
     "initial_type", "onnx", "f", "session", "input_name", "label_name",
     "input"}
EmptyNs == [n \in Names |-> None]

Bind(S, name, v) == [S EXCEPT !.ns[name] = Some(v)]

\* The cell ends here: with an exception (status names it) or normally.
Finish(S, cell, status, value) ==
    [S EXCEPT !.out = [cell |-> cell, status |-> status, value |-> value]]

Handle(path, mode, buf) == [file |-> path, mode |-> mode, buf |-> buf]

\* The content of a file after buf is flushed at offset 0.
Overlay(old, buf) == buf \o SubSeq(old, Len(buf) + 1, Len(old))

\* h.close(): a writer flushes its buffer; the object leaves the open set.
CloseFile(fs, h) ==
    IF h.mode = "wb" /\ ~IsNone(fs[h.file])
    THEN [fs EXCEPT ![h.file] = Some(Overlay(Get(fs[h.file]), h.buf))]
    ELSE fs

\* with open(...) as f: the block's exit closes f, however the block ends.
ExitWith(S, h) == [S EXCEPT !.files = CloseFile(S.files, h)]

\* The last reference to the file object h goes with no close() call: a
\* reference-counting interpreter finalises it at once, which closes it; any
\* other leaves it open until the collector finds it.
DropReference(S, h) ==
    IF refcounting
    THEN [S EXCEPT !.files = CloseFile(S.files, h)]
    ELSE [S EXCEPT !.handles = Append(S.handles, h)]

\* open(path, 'wb')
OpenWrite(S, path) == [S EXCEPT !.files[path] = Some(<<>>)]

\* pickle.dump(obj, open(path, 'wb')): [ok, S].  io is whether the write
\* goes through (an OSError otherwise).
PickleDump(S, obj, path, io) ==
    LET S1 == OpenWrite(S, path)
    IN  IF io
        THEN [ok |-> TRUE,
              S  |-> [DropReference(S1, Handle(path, "wb", Pickle(obj)))
                         EXCEPT !.dumped[path] = Some(obj)]]
        ELSE [ok |-> FALSE, S |-> DropReference(S1, Handle(path, "wb", <<>>))]

\* pickle.load(open(path, 'rb')): [err, obj, S].
PickleLoad(S, path) ==
    IF IsNone(S.files[path])
    THEN [err |-> "FileNotFoundError", obj |-> None, S |-> S]
    ELSE LET obj == Unpickle(Get(S.files[path]))
             S1  == DropReference(S, Handle(path, "rb", <<>>))
         IN  [err |-> IF IsNone(obj) THEN "UnpicklingError" ELSE "",
              obj |-> obj, S |-> S1]

(***************************************************************************)
(* Cell 1, the Tabular Trainer.                                            *)
(***************************************************************************)
TabularTrainer == "TabularTrainer"
Retained == <<"Survived", "Age", "Sex", "Pclass">>
Encoded == <<"Sex", "Pclass">>

\* The frame the trainer fits on: select, encode, then drop.
TrainerFrame(csv) ==
    DropNa(GetDummies(SelectColumns(ReadCsv(csv), Retained), Encoded))

RunTabularTrainer(S, io) ==
    IF IsNone(S.files[TitanicCsv])
    THEN Finish(S, TabularTrainer, "FileNotFoundError", None)
    ELSE
    LET df    == TrainerFrame(Get(S.files[TitanicCsv]))
        x     == DropColumn(df, "Survived")
        y     == Column(df, "Survived")
        model == LogisticRegression(DefaultMaxIter, 0)
        fit   == FitFrame(model, x, y)
        S1    == Bind(Bind(Bind(Bind(S, "df", df), "x", x), "y", y), "model", model)
    IN  IF ~fit.ok THEN Finish(S1, TabularTrainer, fit.err, None)
        ELSE LET d == PickleDump(Bind(S1, "model", fit.obj), fit.obj, TitanicPkl, io)
             IN  Finish(d.S, TabularTrainer, IF d.ok THEN "ok" ELSE "OSError", None)

(***************************************************************************)
(* Cell 2, the Tabular Predictor.                                          *)
(***************************************************************************)
TabularPredictor == "TabularPredictor"

\* pd.DataFrame({name: [value], ...}): one row, the columns in dict order.
OneRowFrame(names, values) ==
    [columns |-> names,
     dtypes  |-> [c \in Range(names) |-> "int64"],
     index   |-> <<0>>,
     rows    |-> <<[c \in Range(names) |->
                      Some(values[CHOOSE j \in 1..Len(names) : names[j] = c])]>>]

Female ==
    OneRowFrame(<<"Age", "Sex_female", "Sex_male", "Pclass_1", "Pclass_2", "Pclass_3">>,
                <<30, 1, 0, 1, 0, 0>>)

\* Element [0] of predict_proba's first row.
ReportedFirst(proba) == proba[1][1]

\* The element of predict_proba's first row the predictors report.
Reported(proba) == proba[1][2]

RunTabularPredictor(S) ==
    LET l == PickleLoad(S, TitanicPkl)
    IN  IF l.err # "" THEN Finish(l.S, TabularPredictor, l.err, None)
        ELSE
        LET S1 == Bind(Bind(l.S, "model", Get(l.obj)), "female", Female)
            p  == PredictProbaFrame(Get(l.obj), Female)
        IN  IF ~p.ok THEN Finish(S1, TabularPredictor, p.err, None)
            ELSE Finish(Bind(S1, "probability", Reported(p.proba)),
                        TabularPredictor, "ok", Some(Reported(p.proba)))

(***************************************************************************)
(* Cell 3, the Text Pipeline Trainer.  A text is its sequence of lowercase *)
(* words; a term is an n-gram, a sequence of one or two words.             *)
(***************************************************************************)
TextTrainer == "TextTrainer"
MinDf == 20
MaxIter == 1000

\* The words of sklearn's English stop list that the model's texts use.
StopWords == {"the", "and", "so", "too", "very"}

\* The words that can reach a vocabulary, in str's sort order.
WordOrder ==
    <<"and", "bad", "excellent", "food", "great", "service", "so", "the", "too",
      "very">>
WordRank(w) == CHOOSE i \in 1..Len(WordOrder) : WordOrder[i] = w
\* The sort key of a term: its words' ranks, a missing second word first.
TermRank(t) ==
    WordRank(t[1]) * (Len(WordOrder) + 1) + (IF Len(t) > 1 THEN WordRank(t[2]) ELSE 0)
SortTerms(S) ==
    [i \in 1..Cardinality(S) |->
        CHOOSE v \in S : Cardinality({w \in S : TermRank(w) < TermRank(v)}) = i - 1]

\* df.drop_duplicates(keep=False): every row that has an equal goes.
DropEveryRepeated(df) ==
    LET keep == [i \in 1..Len(df.rows) |->
                    \A j \in (1..Len(df.rows)) \ {i} : df.rows[j] # df.rows[i]]
    IN  [df EXCEPT !.index = Filter(df.index, keep),
                   !.rows  = Filter(df.rows, keep)]

\* df.drop_duplicates(): a row goes when an earlier row equals it in every
\* column of the frame.
DropDuplicates(df) ==
    LET keep == [i \in 1..Len(df.rows) |->
                    \A j \in 1..(i - 1) : df.rows[j] # df.rows[i]]
    IN  [df EXCEPT !.index = Filter(df.index, keep),
                   !.rows  = Filter(df.rows, keep)]

\* CountVectorizer(ngram_range=(1, 2), stop_words='english', min_df=...)
CountVectorizer(min_df) ==
    Object("CountVectorizer",
           [ngram_range |-> <<1, 2>>, stop_words |-> "english", min_df |-> min_df])

\* The analyzer: the stop words go, then the unigrams and bigrams of the rest.
Analyze(doc) ==
    LET toks == Filter(doc, [i \in 1..Len(doc) |-> doc[i] \notin StopWords])
    IN  [i \in 1..Len(toks) |-> <<toks[i]>>]
        \o [i \in 1..(Len(toks) - 1) |-> <<toks[i], toks[i + 1]>>]

\* vectorizer.fit(docs): the vocabulary is the terms found in at least
\* min_df documents, numbered in sorted order.  [ok, err, obj].
FitVectorizer(vec, docs) ==
    LET terms == [i \in 1..Len(docs) |-> Range(Analyze(docs[i]))]
        all   == UNION {terms[i] : i \in 1..Len(docs)}
        vocab == {t \in all :
                     Cardinality({i \in 1..Len(docs) : t \in terms[i]})
                         >= vec.dict.min_df}
    IN  IF all = {}
        THEN [ok |-> FALSE, err |-> "ValueError: empty vocabulary", obj |-> vec]
        ELSE IF vocab = {}
        THEN [ok |-> FALSE, err |-> "ValueError: no terms remain", obj |-> vec]
        ELSE [ok |-> TRUE, err |-> "",
              obj |-> Object(vec.class,
                             [vocabulary_ |-> SortTerms(vocab)] @@ vec.dict)]

\* The count row of one analysed document over a vocabulary.
CountRow(vocabulary, doc) ==
    LET a == Analyze(doc)
    IN  [j \in 1..Len(vocabulary) |->
            Cardinality({i \in 1..Len(a) : a[i] = vocabulary[j]})]

\* vectorizer.transform(docs)
Transform(vec, docs) ==
    [i \in 1..Len(docs) |-> CountRow(vec.dict.vocabulary_, docs[i])]

\* make_pipeline(vectorizer, model)
MakePipeline(vectorizer, model) ==
    Object("Pipeline",
           [steps |-> << <<"countvectorizer", vectorizer>>,
                         <<"logisticregression", model>> >>])

\* pipe.fit(x, y): the first step is fitted and transforms, the last is
\* fitted on the result.  The steps are the objects the pipeline was made
\* of, so they are fitted in place.  [ok, err, obj].
FitPipeline(pipe, docs, y) ==
    LET v == FitVectorizer(pipe.dict.steps[1][2], docs)
        m == FitMatrix(pipe.dict.steps[2][2], Transform(v.obj, docs), y)
    IN  IF ~v.ok THEN [ok |-> FALSE, err |-> v.err, obj |-> pipe]
        ELSE [ok  |-> m.ok, err |-> m.err,
              obj |-> MakePipeline(v.obj, m.obj)]

\* pipe.predict_proba(docs): [ok, err, proba].
PredictProbaPipeline(pipe, docs) ==
    IF ~Has(pipe.dict.steps[1][2], "vocabulary_")
    THEN [ok |-> FALSE, err |-> "NotFittedError", proba |-> <<>>]
    ELSE PredictProbaMatrix(pipe.dict.steps[2][2],
                            Transform(pipe.dict.steps[1][2], docs))

RunTextTrainer(S, io) ==
    IF IsNone(S.files[ReviewsCsv])
    THEN Finish(S, TextTrainer, "FileNotFoundError", None)
    ELSE
    LET df    == DropDuplicates(ReadCsv(Get(S.files[ReviewsCsv])))
        x     == Column(df, "Text")
        y     == Column(df, "Sentiment")
        pipe  == MakePipeline(CountVectorizer(MinDf), LogisticRegression(MaxIter, 0))
        fit   == FitPipeline(pipe,
                             [i \in 1..Len(x.values) |-> Get(x.values[i])],
                             [i \in 1..Len(y.values) |-> Get(y.values[i])])
        S1    == Bind(Bind(Bind(S, "df", df), "x", x), "y", y)
        S2    == Bind(Bind(Bind(S1, "vectorizer", fit.obj.dict.steps[1][2]),
                           "model", fit.obj.dict.steps[2][2]),
                      "pipe", fit.obj)
    IN  IF ~fit.ok THEN Finish(S2, TextTrainer, fit.err, None)
        ELSE LET d == PickleDump(S2, fit.obj, SentimentPkl, io)
             IN  Finish(d.S, TextTrainer, IF d.ok THEN "ok" ELSE "OSError", None)

(***************************************************************************)
(* Cell 4, the Text Pipeline Predictor, generic form.                      *)
(***************************************************************************)
TextPredictor == "TextPredictor"

\* 'Great food and excellent service!'
Query == <<"great", "food", "and", "excellent", "service">>

\* A predictor that loads sentiment.pkl only when the kernel holds no pipe.
RunTextPredictorCached(S) ==
    LET l == IF IsNone(S.ns["pipe"]) THEN PickleLoad(S, SentimentPkl)
             ELSE [err |-> "", obj |-> S.ns["pipe"], S |-> S]
    IN  IF l.err # "" THEN Finish(l.S, TextPredictor, l.err, None)
        ELSE
        LET S1 == Bind(l.S, "pipe", Get(l.obj))
            p  == PredictProbaPipeline(Get(l.obj), <<Query>>)
        IN  IF ~p.ok THEN Finish(S1, TextPredictor, p.err, None)
            ELSE Finish(S1, TextPredictor, "ok", Some(Reported(p.proba)))

RunTextPredictor(S) ==
    LET l == PickleLoad(S, SentimentPkl)
    IN  IF l.err # "" THEN Finish(l.S, TextPredictor, l.err, None)
        ELSE
        LET S1 == Bind(l.S, "pipe", Get(l.obj))
            p  == PredictProbaPipeline(Get(l.obj), <<Query>>)
        IN  IF ~p.ok THEN Finish(S1, TextPredictor, p.err, None)
            ELSE Finish(S1, TextPredictor, "ok", Some(Reported(p.proba)))

(***************************************************************************)
(* Cell 5, the portable-graph converter.  A graph is its nodes and its     *)
(* declared inputs and outputs, each output a name and a type.             *)
(***************************************************************************)
GraphConverter == "GraphConverter"
LabelType == "tensor(int64)"
ProbaTensorType == "tensor(float)"
ProbaMapType == "seq(map(int64,tensor(float)))"

\* [('string_input', StringTensorType([None, 1]))]
InitialType == << <<"string_input", [type |-> "tensor(string)", shape |-> <<None, <<1>> >>] >> >>

\* convert_sklearn(pipe, initial_types=...) for a fitted pipeline: the
\* vectorizer becomes a tokenizer and an n-gram counter, the classifier a
\* LinearClassifier holding one coefficient row per class (the negated row
\* for classes_[0]), and a ZipMap turns each probability row into a
\* dictionary keyed by class label.  The label output is declared first.
ConvertSklearn(pipe, initial_types) ==
    LET vec == pipe.dict.steps[1][2]
        clf == pipe.dict.steps[2][2]
        neg == [j \in 1..Len(clf.dict.coef_) |-> 0 - clf.dict.coef_[j]]
    IN  [input  |-> [i \in 1..Len(initial_types) |->
                        [name |-> initial_types[i][1], type |-> initial_types[i][2]]],
         output |-> <<[name |-> "output_label", type |-> LabelType],
                      [name |-> "output_probability", type |-> ProbaMapType]>>,
         node   |-> <<[op_type |-> "Tokenizer", stopwords |-> StopWords],
                      [op_type |-> "TfIdfVectorizer",
                       ngrams  |-> vec.dict.vocabulary_],
                      [op_type      |-> "LinearClassifier",
                       classlabels  |-> clf.dict.classes_,
                       coefficients |-> <<neg, clf.dict.coef_>>,
                       intercepts   |-> <<0 - clf.dict.intercept_,
                                          clf.dict.intercept_>>],
                      [op_type |-> "ZipMap", classlabels |-> clf.dict.classes_]>>]

\* Whether convert_sklearn finds the fitted attributes it reads.
Convertible(pipe) ==
    /\ pipe.class = "Pipeline"
    /\ Has(pipe.dict.steps[1][2], "vocabulary_")
    /\ Has(pipe.dict.steps[2][2], "coef_")

Field(tag, v) == [tag |-> tag, v |-> <<v>>]

\* onnx.SerializeToString(): the message's repeated fields, one after another.
SerializeToString(g) ==
    [i \in 1..Len(g.node) |-> Field("node", g.node[i])]
    \o [i \in 1..Len(g.input) |-> Field("input", g.input[i])]
    \o [i \in 1..Len(g.output) |-> Field("output", g.output[i])]

\* The values of the fields tagged tag, in stream order.
Fields(bytes, tag) ==
    LET sel == Filter(bytes, [i \in 1..Len(bytes) |-> bytes[i].tag = tag])
    IN  [i \in 1..Len(sel) |-> Get(sel[i].v)]

\* The graph message parsed from a file's bytes.
ParseGraph(bytes) ==
    [input  |-> Fields(bytes, "input"),
     output |-> Fields(bytes, "output"),
     node   |-> Fields(bytes, "node")]

RunGraphConverter(S, io) ==
    IF IsNone(S.ns["pipe"])
    THEN Finish(Bind(S, "initial_type", InitialType),
                GraphConverter, "NameError: pipe", None)
    ELSE
    LET pipe == Get(S.ns["pipe"])
        S1   == Bind(S, "initial_type", InitialType)
    IN  IF ~Convertible(pipe) THEN Finish(S1, GraphConverter, "ConversionError", None)
        ELSE
        LET onnx == ConvertSklearn(pipe, InitialType)
            S2   == Bind(Bind(OpenWrite(S1, SentimentOnnx), "onnx", onnx),
                         "f", "sentiment.onnx")
            h    == Handle(SentimentOnnx, "wb",
                           IF io THEN SerializeToString(onnx) ELSE <<>>)
            S3   == IF io THEN [S2 EXCEPT !.dumped[SentimentOnnx] = Some(onnx)] ELSE S2
        IN  Finish(ExitWith(S3, h), GraphConverter,
                   IF io THEN "ok" ELSE "OSError", None)

(***************************************************************************)
(* Cell 6, the portable-graph predictor.                                   *)
(***************************************************************************)
GraphPredictor == "GraphPredictor"

\* The node of a graph with the given op_type, if any.
NodeOf(g, op) ==
    LET is == {i \in 1..Len(g.node) : g.node[i].op_type = op}
    IN  IF is = {} THEN None ELSE Some(g.node[CHOOSE i \in is : TRUE])

\* The graph executed on a [1, 1] string tensor: output name -> value.
Execute(g, input) ==
    LET tok   == Get(NodeOf(g, "Tokenizer"))
        tfidf == Get(NodeOf(g, "TfIdfVectorizer"))
        lin   == Get(NodeOf(g, "LinearClassifier"))
        doc   == input[1][1]
        toks  == Filter(doc, [i \in 1..Len(doc) |-> doc[i] \notin tok.stopwords])
        grams == [i \in 1..Len(toks) |-> <<toks[i]>>]
                 \o [i \in 1..(Len(toks) - 1) |-> <<toks[i], toks[i + 1]>>]
        count == [j \in 1..Len(tfidf.ngrams) |->
                     Cardinality({i \in 1..Len(grams) : grams[i] = tfidf.ngrams[j]})]
        z     == lin.intercepts[2]
                 + SumOver([j \in 1..Len(count) |-> lin.coefficients[2][j] * count[j]],
                           1..Len(count))
        row   == <<100 - Sigmoid(z), Sigmoid(z)>>
        label == lin.classlabels[IF row[2] > row[1] THEN 2 ELSE 1]
        value(o) ==
            IF o.type = LabelType THEN <<label>>
            ELSE IF o.type = ProbaMapType
            THEN <<[c \in Range(lin.classlabels) |->
                      row[CHOOSE k \in 1..2 : lin.classlabels[k] = c]]>>
            ELSE <<row>>
    IN  [n \in {g.output[i].name : i \in 1..Len(g.output)} |->
            value(g.output[CHOOSE i \in 1..Len(g.output) : g.output[i].name = n])]

\* Python's sample[1] on one sample of an output of the given type: a
\* dictionary is read by key, a row by position, a scalar not at all.
IndexOne(sample, type) ==
    IF type = ProbaMapType
    THEN (IF 1 \in DOMAIN sample THEN Some(sample[1]) ELSE None)
    ELSE IF type = ProbaTensorType THEN Some(sample[2])
    ELSE None

TypeOf(g, name) ==
    g.output[CHOOSE i \in 1..Len(g.output) : g.output[i].name = name].type

\* session.get_outputs()[0]
FirstOutput(outputs) == outputs[1]

\* session.get_inputs()[0] and session.get_outputs()[1]
FirstInput(inputs) == inputs[1]
SecondOutput(outputs) == outputs[2]

RunGraphPredictor(S) ==
    IF IsNone(S.files[SentimentOnnx])
    THEN Finish(S, GraphPredictor, "NoSuchFile", None)
    ELSE
    LET g == ParseGraph(Get(S.files[SentimentOnnx]))
    IN  IF Len(g.node) = 0
        THEN Finish(S, GraphPredictor, "InvalidGraph", None)
        ELSE
        LET S1 == Bind(S, "session", g)
        IN  IF Len(g.input) < 1 \/ Len(g.output) < 2
            THEN Finish(S1, GraphPredictor, "IndexError", None)
            ELSE
            LET input_name == FirstInput(g.input).name
                label_name == SecondOutput(g.output).name
                input      == <<<<Query>>>>
                S2 == Bind(Bind(Bind(S1, "input_name", input_name),
                                "label_name", label_name), "input", input)
                r  == IndexOne(Execute(g, input)[label_name][1],
                               TypeOf(g, label_name))
            IN  IF IsNone(r) THEN Finish(S2, GraphPredictor, "LookupError", None)
                ELSE Finish(S2, GraphPredictor, "ok", r)

(***************************************************************************)
(* The inputs: the CSV files found in Data/, the interpreter and the       *)
(* scikit-learn release installed.                                         *)
(***************************************************************************)
MaxExtraRows == 2
MaxBlocks == 3
MaxHandles == 2

TitanicHeader == <<"Survived", "Pclass", "Sex", "Age", "Fare">>
TitanicKinds ==
    [Survived |-> "num", Pclass |-> "num", Sex |-> "str", Age |-> "num", Fare |-> "num"]
Passenger(survived, age, sex, pclass) ==
    [Survived |-> survived, Age |-> age, Sex |-> sex, Pclass |-> pclass,
     Fare |-> Some(7)]

\* Passengers covering both sexes and the three classes.
AllLevels ==
    <<Passenger(Some(1), Some(30), Some("female"), Some(1)),
      Passenger(Some(0), Some(40), Some("male"), Some(3)),
      Passenger(Some(0), Some(30), Some("male"), Some(2))>>
\* Further passengers, with and without blank cells.
ExtraPassengers ==
    {Passenger(Some(1), Some(40), Some("female"), Some(3)),
     Passenger(Some(1), None, Some("female"), Some(2)),
     Passenger(Some(1), Some(30), None, Some(1)),
     Passenger(Some(0), Some(40), Some("male"), None),
     Passenger(None, Some(30), Some("female"), Some(3))}

TitanicFile(rows) == [header |-> TitanicHeader, kinds |-> TitanicKinds, rows |-> rows]
TitanicFiles ==
    {TitanicFile(base \o extra) :
        base \in {<<>>, AllLevels}, extra \in SeqsUpTo(ExtraPassengers, MaxExtraRows)}

\* How a reviews file writes its two sentiments.
Encodings == {[neg |-> 0, pos |-> 1], [neg |-> 1, pos |-> 2], [neg |-> 1, pos |-> 0]}

\* A run of n reviews of one sentiment.  When varied, each review puts its
\* own three intensifiers before the words, so the n texts differ; otherwise
\* the n reviews are the same text.
Intensifiers == <<"so", "too", "very">>
Intensify(k) ==
    <<Intensifiers[((k \div 9) % 3) + 1], Intensifiers[((k \div 3) % 3) + 1],
      Intensifiers[(k % 3) + 1]>>
Block(words, positive, n, varied) ==
    [words |-> words, positive |-> positive, n |-> n, varied |-> varied]
Praise == Block(<<"great", "food">>, TRUE, MinDf, TRUE)
Blame == Block(<<"the", "bad", "food">>, FALSE, MinDf, TRUE)
Repeat == Block(<<"great", "food">>, TRUE, 2, FALSE)
Blocks == {Praise, Blame, Repeat}

Review(b, k, id, enc) ==
    [Id        |-> Some(id),
     Text      |-> Some((IF b.varied THEN Intensify(k) ELSE <<>>) \o b.words),
     Sentiment |-> Some(IF b.positive THEN enc.pos ELSE enc.neg)]

RECURSIVE Reviews(_, _, _)
Reviews(blocks, first, enc) ==
    IF Len(blocks) = 0 THEN <<>>
    ELSE [k \in 1..blocks[1].n |-> Review(blocks[1], k, first + k, enc)]
         \o Reviews(Tail(blocks), first + blocks[1].n, enc)

\* A reviews file, with or without an Id column before Text and Sentiment.
ReviewsFile(blocks, hasId, enc) ==
    LET header == (IF hasId THEN <<"Id">> ELSE <<>>) \o <<"Text", "Sentiment">>
        rows   == Reviews(blocks, 0, enc)
    IN  [header   |-> header,
         kinds    |-> [Id |-> "num", Text |-> "str", Sentiment |-> "num"],
         rows     |-> [i \in 1..Len(rows) |-> [c \in Range(header) |-> rows[i][c]]],
         positive |-> enc.pos]

\* The file with an Id column comes in the usual encoding only.
ReviewsFiles ==
    {ReviewsFile(blocks, FALSE, enc) :
        blocks \in SeqsUpTo(Blocks, MaxBlocks), enc \in Encodings}
    \cup {ReviewsFile(blocks, TRUE, [neg |-> 0, pos |-> 1]) :
            blocks \in SeqsUpTo(Blocks, MaxBlocks)}

\* The files both sentiments of which reach the classifier.
TwoClassReviews ==
    {ReviewsFile(blocks, FALSE, enc) :
        blocks \in {<<Praise, Blame>>, <<Blame, Praise>>}, enc \in Encodings}

(***************************************************************************)
(* The state machine.                                                      *)
(***************************************************************************)
State ==
    [files |-> files, handles |-> handles, ns |-> ns, out |-> out, dumped |-> dumped]

Becomes(T) ==
    /\ files' = T.files
    /\ handles' = T.handles
    /\ ns' = T.ns
    /\ out' = T.out
    /\ dumped' = T.dumped
    /\ UNCHANGED <<refcounting, checksNames>>

NoOutput == [cell |-> "none", status |-> "none", value |-> None]

\* A fresh kernel in a directory holding the two CSV files (or not).
InitWith(titanic, reviews) ==
    /\ files \in {[p \in Paths |->
                      IF p = TitanicCsv THEN t ELSE IF p = ReviewsCsv THEN r ELSE None] :
                  t \in titanic, r \in reviews}
    /\ handles = <<>>
    /\ ns = EmptyNs
    /\ out = NoOutput
    /\ dumped = [p \in Paths |-> None]
    /\ refcounting \in BOOLEAN
    /\ checksNames \in BOOLEAN

\* The same, on a reference-counting interpreter.
InitRefcounting(titanic, reviews) == InitWith(titanic, reviews) /\ refcounting

\* A cell that leaves a file object to the collector can run while the
\* model has room for one more open object.
Room == refcounting \/ Len(handles) < MaxHandles

\* The cells.  io is whether the cell's write to disk goes through.
Cell1 ==
    Room /\ \E io \in BOOLEAN : \E T \in {RunTabularTrainer(State, io)} : Becomes(T)
Cell2 ==
    Room /\ \E T \in {RunTabularPredictor(State)} : Becomes(T)
Cell3 ==
    Room /\ \E io \in BOOLEAN : \E T \in {RunTextTrainer(State, io)} : Becomes(T)
Cell4 ==
    Room /\ \E T \in {RunTextPredictor(State)} : Becomes(T)
Cell5 ==
    \E io \in BOOLEAN : \E T \in {RunGraphConverter(State, io)} : Becomes(T)
Cell6 ==
    \E T \in {RunGraphPredictor(State)} : Becomes(T)

\* The collector finalises one unreachable file object, which closes it.
Collect ==
    \E i \in 1..Len(handles) :
        /\ files' = CloseFile(files, handles[i])
        /\ handles' = SubSeq(handles, 1, i - 1) \o SubSeq(handles, i + 1, Len(handles))
        /\ UNCHANGED <<ns, out, dumped, refcounting, checksNames>>

RECURSIVE CloseAll(_, _)
CloseAll(fs, hs) ==
    IF Len(hs) = 0 THEN fs ELSE CloseAll(CloseFile(fs, hs[1]), Tail(hs))

\* The kernel is restarted: the process exits, which flushes and closes what
\* it had open, and a fresh one starts with an empty namespace.
Restart ==
    /\ files' = CloseAll(files, handles)
    /\ handles' = <<>>
    /\ ns' = EmptyNs
    /\ out' = NoOutput
    /\ UNCHANGED <<dumped, refcounting, checksNames>>

\* Another exporter's graph of the same pipeline: it may declare the
\* probability output first, and it may leave the ZipMap out, which makes
\* the probability output a plain tensor.
OtherExport(pipe, labelFirst, zipmap) ==
    LET g     == ConvertSklearn(pipe, InitialType)
        proba == [name |-> "output_probability",
                  type |-> IF zipmap THEN ProbaMapType ELSE ProbaTensorType]
        nodes == IF zipmap THEN g.node ELSE SubSeq(g.node, 1, Len(g.node) - 1)
    IN  [g EXCEPT !.output = IF labelFirst THEN <<g.output[1], proba>>
                             ELSE <<proba, g.output[1]>>,
                  !.node   = nodes]

\* sentiment.onnx is replaced by a graph exported from sentiment.pkl with
\* another tool.
Export ==
    /\ ~IsNone(files[SentimentPkl])
    /\ \E pipe \in {Unpickle(Get(files[SentimentPkl]))} :
          /\ ~IsNone(pipe)
          /\ \E labelFirst, zipmap \in BOOLEAN :
                files' = [files EXCEPT ![SentimentOnnx] =
                             Some(SerializeToString(
                                      OtherExport(Get(pipe), labelFirst, zipmap)))]
    /\ UNCHANGED <<handles, ns, out, dumped, refcounting, checksNames>>

UsualTitanic == TitanicFile(AllLevels)
UsualReviews == ReviewsFile(<<Praise, Blame>>, FALSE, [neg |-> 0, pos |-> 1])

\* The notebook on a reference-counting interpreter, every cell in any order.
Init ==
    /\ InitRefcounting({None, Some(UsualTitanic)}, {None, Some(UsualReviews)})
    /\ checksNames
Next == Cell1 \/ Cell2 \/ Cell3 \/ Cell4 \/ Cell5 \/ Cell6 \/ Restart
Spec == Init /\ [][Next]_vars

\* The tabular cells on every titanic file, interpreter and scikit-learn.
InitTabular == InitWith({None} \cup {Some(f) : f \in TitanicFiles}, {None})
NextTabular == Cell1 \/ Cell2 \/ Collect \/ Restart
SpecTabular == InitTabular /\ [][NextTabular]_vars

\* The text trainer on every reviews file.
InitTrainer ==
    InitRefcounting({None}, {None} \cup {Some(f) : f \in ReviewsFiles}) /\ checksNames
NextTrainer == Cell3 \/ Restart
SpecTrainer == InitTrainer /\ [][NextTrainer]_vars

\* The state of a kernel restarted after the tabular trainer ran on csv.
AfterTabularTrainer(csv) ==
    LET fresh == [files   |-> [p \in Paths |-> IF p = TitanicCsv THEN Some(csv) ELSE None],
                  handles |-> <<>>, ns |-> EmptyNs, out |-> NoOutput,
                  dumped  |-> [p \in Paths |-> None]]
        T     == RunTabularTrainer(fresh, TRUE)
    IN  [T EXCEPT !.handles = <<>>, !.ns = EmptyNs, !.out = NoOutput]

\* The predictors on every encoding of the sentiments, in a directory where
\* the tabular trainer has run on a reference-counting interpreter before.
InitPredictors ==
    /\ refcounting = TRUE
    /\ checksNames = TRUE
    /\ \E T \in {AfterTabularTrainer(UsualTitanic)} :
       \E r \in {ReviewsFile(<<Praise, Blame>>, FALSE, enc) : enc \in Encodings} :
          /\ files = [p \in Paths |-> IF p = ReviewsCsv THEN Some(r) ELSE T.files[p]]
          /\ dumped = T.dumped
    /\ handles = <<>>
    /\ ns = EmptyNs
    /\ out = NoOutput
NextPredictors == Cell2 \/ Cell3 \/ Cell4 \/ Cell5 \/ Cell6 \/ Restart
SpecPredictors == InitPredictors /\ [][NextPredictors]_vars

\* The text cells where sentiment.onnx may also come from another exporter.
InitGraph == InitRefcounting({None}, {Some(UsualReviews)}) /\ checksNames
NextGraph == Cell3 \/ Cell4 \/ Cell5 \/ Cell6 \/ Export \/ Restart
SpecGraph == InitGraph /\ [][NextGraph]_vars

(***************************************************************************)
(* Properties of the tabular cells, checked under SpecTabular.             *)
(***************************************************************************)
TitanicRows == Get(files[TitanicCsv]).rows

\* The values a column of titanic.csv holds, blanks aside.
Present(c) ==
    {Get(TitanicRows[i][c]) :
        i \in {j \in 1..Len(TitanicRows) : ~IsNone(TitanicRows[j][c])}}
Blank(c) == \E i \in 1..Len(TitanicRows) : IsNone(TitanicRows[i][c])

\* The last cell run is the tabular trainer, and it read the file.
TrainerEncoded == out.cell = TabularTrainer /\ out.status # "FileNotFoundError"

\* C2: every row the tabular trainer trains on comes from a row of the file
\* with no missing Survived, Age, Sex or Pclass.
C2_TrainsOnCompleteRows ==
    TrainerEncoded =>
        \A k \in 1..Len(Get(ns["x"]).index) :
            \A c \in Range(Retained) :
                ~IsNone(TitanicRows[Get(ns["x"]).index[k] + 1][c])

\* The columns the model in titanic.pkl was fitted on.
FittedColumns == DropColumn(TrainerFrame(Get(files[TitanicCsv])), "Survived").columns

\* C3: the tabular predictor reports no probability when the columns of its
\* feature row differ from the columns the model was fitted on.
C3_MismatchReportsNothing ==
    (/\ out.cell = TabularPredictor
     /\ ~IsNone(dumped[TitanicPkl])
     /\ FittedColumns # Female.columns) => out.status # "ok"

\* C6: no file object a cell opened is still open when the cell has ended.
C6_NothingLeftOpen == handles = <<>>

FeatureRowColumns ==
    <<"Age", "Sex_female", "Sex_male", "Pclass_1", "Pclass_2", "Pclass_3">>
HoldsEveryLevel == Present("Sex") = {"female", "male"} /\ Present("Pclass") = {1, 2, 3}

\* The indicators of one group that a one-row frame sets.
IndicatorsSet(frame, group) ==
    {c \in Range(frame.columns) :
        /\ c \in Range(DummyNames(ReadCsv(Get(files[TitanicCsv])), group))
        /\ frame.rows[1][c] = Some(1)}

\* C10, as the specification states it: when the file holds exactly the Sex
\* values female and male and the Pclass values 1, 2 and 3, the trainer's
\* feature columns are the Feature Row's, in its order.
C10_ColumnsEqual ==
    (TrainerEncoded /\ HoldsEveryLevel) =>
        /\ Get(ns["x"]).columns = FeatureRowColumns
        /\ Female.columns = FeatureRowColumns

\* C10: the same when, besides, no Pclass cell of the file is blank; and the
\* Feature Row sets exactly one indicator of each of its two groups.
C10_ColumnsEqualNoBlankClass ==
    /\ (TrainerEncoded /\ HoldsEveryLevel /\ ~Blank("Pclass")) =>
           /\ Get(ns["x"]).columns = FeatureRowColumns
           /\ Female.columns = FeatureRowColumns
           /\ \A g \in Range(Encoded) : Cardinality(IndicatorsSet(Female, g)) = 1

\* The trainer has fitted on a file with every level, no blank Pclass and
\* some other blank cell, after the predictor built its Feature Row.
C10_Witness ==
    /\ TrainerEncoded /\ out.status = "ok"
    /\ HoldsEveryLevel /\ ~Blank("Pclass") /\ Blank("Sex")
    /\ ns["female"] = Some(Female)

(***************************************************************************)
(* Properties of the text trainer, checked under SpecTrainer.              *)
(***************************************************************************)
ReviewsContent == Get(files[ReviewsCsv])

\* The last cell run is the text trainer, and it read the file.
TrainerDeduplicated == out.cell = TextTrainer /\ out.status # "FileNotFoundError"

\* The (Text, Sentiment) pairs of the training data are pairwise different.
PairsDiffer ==
    \A i, j \in 1..Len(Get(ns["x"]).values) :
        i # j => \/ Get(ns["x"]).values[i] # Get(ns["x"]).values[j]
                 \/ Get(ns["y"]).values[i] # Get(ns["y"]).values[j]

\* C4, as the specification states it: each distinct (Text, Sentiment) pair
\* is in the training data at most once, whatever other columns the file has.
C4_PairsAtMostOnce == TrainerDeduplicated => PairsDiffer

\* C4: the rows of the training data are pairwise different as whole rows,
\* every row of the file equals one of them, and the (Text, Sentiment) pairs
\* are pairwise different when the file has no other column.
C4_RowsAtMostOnce ==
    TrainerDeduplicated =>
        /\ \A i, j \in 1..Len(Get(ns["df"]).rows) :
              i # j => Get(ns["df"]).rows[i] # Get(ns["df"]).rows[j]
        /\ \A i \in 1..Len(ReviewsContent.rows) :
              \E k \in 1..Len(Get(ns["df"]).rows) :
                  /\ Get(ns["df"]).rows[k] = ReviewsContent.rows[i]
                  /\ Get(ns["df"]).index[k] <= i - 1
        /\ Range(ReviewsContent.header) = {"Text", "Sentiment"} => PairsDiffer

\* The trainer has fitted on a file of Text and Sentiment only, some rows of
\* which were repeated.
C4_Witness ==
    /\ TrainerDeduplicated /\ out.status = "ok"
    /\ Range(ReviewsContent.header) = {"Text", "Sentiment"}
    /\ Len(Get(ns["df"]).rows) < Len(ReviewsContent.rows)

(***************************************************************************)
(* Properties of the graph predictor, checked under SpecGraph.             *)
(***************************************************************************)
\* The last cell run is the graph predictor, and it ran an output.
GraphRead == out.cell = GraphPredictor /\ out.status \in {"ok", "LookupError"}

Session == Get(ns["session"])
ProbabilityTypes == {ProbaMapType, ProbaTensorType}

\* C5, as the specification states it: for every ordering of the graph's
\* outputs, the output the graph predictor runs is the class-probability one.
C5_RunsProbabilityOutput ==
    GraphRead => TypeOf(Session, Get(ns["label_name"])) \in ProbabilityTypes

\* C5: the graph predictor reads the names from the session, the input's at
\* position 0 and the output's at position 1; it reports a probability
\* exactly when the graph declares its probability output second, which the
\* graphs of the notebook's converter do.
C5_RunsSecondOutput ==
    /\ GraphRead =>
          /\ Get(ns["input_name"]) = Session.input[1].name
          /\ Get(ns["label_name"]) = Session.output[2].name
          /\ out.status = "ok" <=> Session.output[2].type \in ProbabilityTypes
    /\ (/\ ~IsNone(files[SentimentOnnx]) /\ ~IsNone(dumped[SentimentOnnx])
        /\ ParseGraph(Get(files[SentimentOnnx])) = Get(dumped[SentimentOnnx])) =>
          Get(dumped[SentimentOnnx]).output[2].type = ProbaMapType

\* The predictor has reported a probability from another exporter's graph,
\* which declares the probability output second and as a plain tensor.
C5_Witness ==
    /\ GraphRead /\ out.status = "ok"
    /\ Session.output[2].type = ProbaTensorType
    /\ Session.output[1].type = LabelType

(***************************************************************************)
(* Properties of the predictors, checked under SpecPredictors.             *)
(***************************************************************************)
\* The probability an estimator gives a class label on the first row.
ProbaFor(p, classes, label) ==
    p.proba[1][CHOOSE k \in 1..Len(classes) : classes[k] = label]

Greatest(S) == CHOOSE v \in S : \A w \in S : w <= v

TabularModel == Get(dumped[TitanicPkl])
TextPipe == Get(dumped[SentimentPkl])
TextClasses == TextPipe.dict.steps[2][2].dict.classes_

\* sentiment.onnx holds the converter's graph of the pipeline in
\* sentiment.pkl.
BothForms ==
    /\ ~IsNone(dumped[SentimentPkl]) /\ ~IsNone(dumped[SentimentOnnx])
    /\ files[SentimentPkl] = Some(Pickle(TextPipe))
    /\ files[SentimentOnnx] = Some(SerializeToString(Get(dumped[SentimentOnnx])))
    /\ Get(dumped[SentimentOnnx]) = ConvertSklearn(TextPipe, InitialType)

\* C8: when sentiment.onnx holds the graph of the pipeline in sentiment.pkl,
\* the graph predictor reports the probability the text predictor reports
\* for the same text.
C8_FormsAgree ==
    (out.cell = GraphPredictor /\ BothForms) =>
        \E T \in {RunTextPredictor(State)} :
            /\ T.out.status = "ok" /\ out.status = "ok"
            /\ out.value = T.out.value

\* The label the training file gives the positive sentiment.
Positive == Get(files[ReviewsCsv]).positive

Holds(path) == ~IsNone(dumped[path]) /\ files[path] = Some(Pickle(Get(dumped[path])))

ProbeFrames ==
    {OneRowFrame(Female.columns, v) :
        v \in {<<30, 1, 0, 1, 0, 0>>, <<60, 0, 1, 0, 0, 1>>, <<2, 1, 0, 0, 1, 0>>}}
ProbeTexts == {Query, <<"bad", "food">>, <<"so", "great", "service">>, <<>>}

\* C1: the object loaded from a file a fitted model was dumped to equals the
\* model, the learned vocabulary and weights included, and predicts as the
\* model does; a predictor reports the prediction of the model dumped, which
\* it loads without fitting.
C1_RoundTrip ==
    /\ Holds(TitanicPkl) =>
          \E L \in {Unpickle(Get(files[TitanicPkl]))} :
              /\ L = dumped[TitanicPkl]
              /\ Get(L).dict.coef_ = TabularModel.dict.coef_
              /\ \A X \in ProbeFrames :
                    /\ PredictProbaFrame(Get(L), X) = PredictProbaFrame(TabularModel, X)
                    /\ PredictProbaFrame(TabularModel, X).ok
    /\ Holds(SentimentPkl) =>
          \E L \in {Unpickle(Get(files[SentimentPkl]))} :
              /\ L = dumped[SentimentPkl]
              /\ Get(L).dict.steps[1][2].dict.vocabulary_
                    = TextPipe.dict.steps[1][2].dict.vocabulary_
              /\ Get(L).dict.steps[2][2].dict.coef_ = TextPipe.dict.steps[2][2].dict.coef_
              /\ \A t \in ProbeTexts :
                    /\ PredictProbaPipeline(Get(L), <<t>>)
                          = PredictProbaPipeline(TextPipe, <<t>>)
                    /\ PredictProbaPipeline(TextPipe, <<t>>).ok
    /\ out.cell = TabularPredictor =>
          /\ out.status = "ok" <=> Holds(TitanicPkl)
          /\ out.status = "ok" =>
                /\ ns["model"] = dumped[TitanicPkl]
                /\ out.value = Some(Reported(PredictProbaFrame(TabularModel, Female).proba))
    /\ out.cell = TextPredictor =>
          /\ out.status = "ok" <=> Holds(SentimentPkl)
          /\ out.status = "ok" =>
                /\ ns["pipe"] = dumped[SentimentPkl]
                /\ out.value = Some(Reported(PredictProbaPipeline(TextPipe, <<Query>>).proba))

\* The text predictor has reported a probability in a kernel restarted since
\* the trainers ran.
C1_Witness ==
    /\ out.cell = TextPredictor /\ out.status = "ok"
    /\ Holds(TitanicPkl) /\ Holds(SentimentPkl)
    /\ IsNone(ns["x"])

\* The same state in a fresh process.
Fresh(S) == [S EXCEPT !.ns = EmptyNs]
\* The same state in a process that holds the name pipe and nothing else.
OnlyPipe(S) == [S EXCEPT !.ns = [n \in Names |-> IF n = "pipe" THEN S.ns[n] ELSE None]]

\* T is the result U, names the cell did not assign aside.
SameResult(T, U) ==
    /\ T.out = U.out
    /\ T.files = U.files
    /\ T.handles = U.handles
    /\ T.dumped = U.dumped
    /\ \A n \in Names : ~IsNone(U.ns[n]) => T.ns[n] = U.ns[n]

\* The cell does here what it does in a fresh process, where it runs to
\* completion when the files it reads are ready.
Independent(Run(_), ready) ==
    \E T \in {Run(State)} : \E U \in {Run(Fresh(State))} :
        SameResult(T, U) /\ (ready => U.out.status = "ok")

RunCell1(S) == RunTabularTrainer(S, TRUE)
RunCell1Failing(S) == RunTabularTrainer(S, FALSE)
RunCell3(S) == RunTextTrainer(S, TRUE)
RunCell3Failing(S) == RunTextTrainer(S, FALSE)
RunCell5(S) == RunGraphConverter(S, TRUE)
RunCell5Failing(S) == RunGraphConverter(S, FALSE)

IndependentButConverter ==
    /\ Independent(RunCell1, ~IsNone(files[TitanicCsv]))
    /\ Independent(RunCell1Failing, FALSE)
    /\ Independent(RunTabularPredictor, Holds(TitanicPkl))
    /\ Independent(RunCell3, ~IsNone(files[ReviewsCsv]))
    /\ Independent(RunCell3Failing, FALSE)
    /\ Independent(RunTextPredictor, Holds(SentimentPkl))
    /\ Independent(RunGraphPredictor,
                   /\ ~IsNone(dumped[SentimentOnnx])
                   /\ files[SentimentOnnx]
                         = Some(SerializeToString(Get(dumped[SentimentOnnx]))))

\* C7, as the specification states it: every cell does what it does in a
\* fresh process, where it runs to completion once the files it reads exist.
C7_NoSharedState ==
    /\ IndependentButConverter
    /\ Independent(RunCell5, Holds(SentimentPkl))
    /\ Independent(RunCell5Failing, FALSE)

\* C7: every cell but the converter does what it does in a fresh process,
\* where it runs to completion once the files it reads are ready; the
\* converter reads the name pipe of the process and nothing else of it, and
\* fails in a fresh process.
C7_NoSharedStateButPipe ==
    /\ IndependentButConverter
    /\ \A io \in BOOLEAN :
          \E T \in {RunGraphConverter(State, io)} :
          \E U \in {RunGraphConverter(OnlyPipe(State), io)} :
          \E V \in {RunGraphConverter(Fresh(State), io)} :
              /\ SameResult(T, U)
              /\ V.out.status = "NameError: pipe"
              /\ V.files = files

\* The converter has written a graph in a process where other cells bound
\* names before it.
C7_Witness ==
    /\ out.cell = GraphConverter /\ out.status = "ok"
    /\ ~IsNone(ns["model"]) /\ ~IsNone(ns["female"]) /\ ~IsNone(ns["session"])

====
